---- MODULE Spec2Model ----
(***************************************************************************)
(* Per-guild playback coordinator of the Discord music bot (bot.py,        *)
(* helper.py, control.py).                                                 *)
(*                                                                         *)
(* The program state is the module-level dictionaries of bot.py.  Every    *)
(* coroutine runs on the single event loop (bot.loop): a step of the model *)
(* is the code a coroutine executes between two suspension points, so each *)
(* action below is one such atomic stretch.  The `after` callbacks run on  *)
(* the player thread of the voice library, outside the event loop.         *)
(*                                                                         *)
(* discord.py is not part of the repository.  What the model assumes of    *)
(* it is written next to the operators Vc..., at the call sites in the     *)
(* source that rely on it.                                                 *)
(***************************************************************************)
EXTENDS Integers, Sequences, FiniteSets, TLC

(* ------------------------------ bounds -------------------------------- *)
MaxTime == 2          \* the monotonic clock runs 1..MaxTime
MaxCmds == 3          \* commands issued in one behaviour
MaxVc   == 2          \* voice client objects alive at once
MaxMsgs == 2          \* Now Playing messages alive at once

(* -------------------------- program constants ------------------------- *)
MaxLevel == 5         \* bot.py: `if not 0 <= level <= 5`
Guilds == {1, 2}
Titles == {1, 2}      \* a track is (url, title, duration); url and title coincide
Duration(title) == IF title = 1 THEN 2 ELSE 0     \* 0: duration unknown
None == -1            \* a key that is absent from a dictionary

NoTrack == [title |-> 0, duration |-> 0, started_at |-> 0, seek_offset |-> 0]
NoVc    == [g |-> 0, state |-> "unused", stream |-> "none", after |-> "none",
            title |-> 0, seek |-> 0, options |-> [flags |-> "", af |-> <<>>]]
NoChange == [title |-> 0, elapsed |-> 0]
(* What the last step did: op names the operation that ran or completed   *)
(* for guild g; by is "callback" when a stream-end callback had scheduled  *)
(* it; change is the effect change that step answered, q the queue it      *)
(* found, quiet whether no other command arrived while it was running;     *)
(* refused is set when voice_client.play raised in this step; skip is the  *)
(* title of the track whose stream a skip had ended, when the step handled *)
(* that stream-end; level is the argument of an effect command; played is  *)
(* the voice client whose play() the step called; forgot is the message    *)
(* whose reference the step dropped because editing it had failed; keys,   *)
(* seen and shown are those of the run of _progress_tick the step ended.   *)
NoEvent == [op |-> "none", g |-> 0, by |-> "none", change |-> NoChange, q |-> <<>>,
            quiet |-> TRUE, refused |-> FALSE, skip |-> 0, level |-> 0, played |-> 0,
            forgot |-> 0, keys |-> {}, seen |-> {}, shown |-> {}]

VARIABLES
  SONG_QUEUES,            \* bot.py:64  guild -> sequence of titles
  CURRENT_PLAYERS,        \* bot.py:65  guild -> volume in percent, or None
  CURRENT_TRACK,          \* bot.py:66  guild -> track record, or NoTrack
  PENDING_RESTART,        \* bot.py:67  guild -> elapsed, or None
  BASSBOOST_LEVELS,       \* bot.py:68  guild -> level (0 when the key is absent)
  TREBLEBOOST_LEVELS,     \* bot.py:69
  VOCALBOOST_LEVELS,      \* bot.py:70
  NOW_PLAYING_CHANNELS,   \* bot.py:72  guild -> TRUE when a channel id is stored
  NOW_PLAYING_MESSAGES,   \* bot.py:73  guild -> message id, or 0
  voice_clients,          \* the VoiceClient objects created by connect()
  guild_voice_client,     \* guild.voice_client: id of the registered client, or 0
  channel_messages,       \* guild -> ids of the bot's messages that exist in the channel
  callbacks,              \* `after` callbacks the player threads have yet to run
  tasks,                  \* coroutines of the event loop, each at a suspension point
  now,                    \* time.monotonic()
  commands,               \* commands issued so far
  active,                 \* guilds whose members issue commands
  lastChange,             \* history: the accepted effect change awaiting its restart
  lastSkip,               \* history: the track whose stream a skip has ended, until
                          \* that stream-end is handled
  volumeSet,              \* history: the volume a command or button last set, or None
  search,                 \* a call of helper.search_youtube: where it is and what
                          \* its lookups were asked and answered
  event,                  \* history: what the last step did
  stopped,                \* history: "stopping" once stop or reset is issued, "yes" once
                          \* it has cleared the guild, "no" again at the next /play
  startError              \* history: how the last track start of the guild failed

vars == <<SONG_QUEUES, CURRENT_PLAYERS, CURRENT_TRACK, PENDING_RESTART,
          BASSBOOST_LEVELS, TREBLEBOOST_LEVELS, VOCALBOOST_LEVELS,
          NOW_PLAYING_CHANNELS, NOW_PLAYING_MESSAGES, voice_clients,
          guild_voice_client, channel_messages, callbacks, tasks, now,
          commands, active, lastChange, lastSkip, volumeSet, search, event,
          stopped, startError>>

(* The store: the mutable state as one record, so that the statements of a *)
(* handler compose as functions from store to store.                       *)
Store ==
  [q |-> SONG_QUEUES, players |-> CURRENT_PLAYERS, track |-> CURRENT_TRACK,
   pending |-> PENDING_RESTART, bass |-> BASSBOOST_LEVELS,
   treble |-> TREBLEBOOST_LEVELS, vocal |-> VOCALBOOST_LEVELS,
   chan |-> NOW_PLAYING_CHANNELS, msg |-> NOW_PLAYING_MESSAGES,
   vcs |-> voice_clients, gvc |-> guild_voice_client, live |-> channel_messages,
   cbs |-> callbacks, tasks |-> tasks, lastChange |-> lastChange, lastSkip |-> lastSkip,
   volumeSet |-> volumeSet,
   event |-> NoEvent, stopped |-> stopped, startError |-> startError]

(* A closed voice client that no coroutine, callback or guild refers to is *)
(* garbage: its slot is free again.                                        *)
Collect(s) ==
  [s EXCEPT !.vcs = [v \in DOMAIN s.vcs |->
      IF /\ s.vcs[v].state = "closed"
         /\ \A t \in s.tasks : t.vc # v
         /\ \A c \in s.cbs : c.vc # v
         /\ \A g \in Guilds : s.gvc[g] # v
      THEN NoVc ELSE s.vcs[v]]]

Commit(s0) ==
  LET s == Collect(s0) IN
  /\ SONG_QUEUES' = s.q
  /\ CURRENT_PLAYERS' = s.players
  /\ CURRENT_TRACK' = s.track
  /\ PENDING_RESTART' = s.pending
  /\ BASSBOOST_LEVELS' = s.bass
  /\ TREBLEBOOST_LEVELS' = s.treble
  /\ VOCALBOOST_LEVELS' = s.vocal
  /\ NOW_PLAYING_CHANNELS' = s.chan
  /\ NOW_PLAYING_MESSAGES' = s.msg
  /\ voice_clients' = s.vcs
  /\ guild_voice_client' = s.gvc
  /\ channel_messages' = s.live
  /\ callbacks' = s.cbs
  /\ tasks' = s.tasks
  /\ lastChange' = s.lastChange
  /\ lastSkip' = s.lastSkip
  /\ volumeSet' = s.volumeSet
  /\ event' = s.event
  /\ stopped' = s.stopped
  /\ startError' = s.startError

(* ---------------------- helper.py: search_youtube --------------------- *)
(* pc: "idle" before a call, "lookup" while run_in_executor runs _extract, *)
(* "sleep" in the backoff, "returned" or "raised" once the call is over;   *)
(* asked: the query of each lookup made; tried: how each lookup ended;     *)
(* slept: the backoffs taken; info: what the last lookup returned.         *)
NoInfo == [entries |-> <<>>, single |-> FALSE]
NoSearch == [pc |-> "idle", query |-> [scheme |-> "", text |-> 0], asked |-> <<>>,
             tried |-> <<>>, slept |-> 0, info |-> NoInfo, result |-> <<>>]

(* helper.py:105-106.                                                      *)
SearchQuery(query) ==
  IF query.scheme = "http" THEN query ELSE [query EXCEPT !.scheme = "ytsearch"]

(* helper.py:128-134: the entries that have a url and a title, a missing   *)
(* duration read as 0. An entry is Null or a record with url, title and    *)
(* duration, 0 standing for an absent or empty field.                      *)
Null == [url |-> None, title |-> None, duration |-> None]
RECURSIVE SearchResults(_)
SearchResults(entries) ==
  IF entries = <<>> THEN <<>>
  ELSE LET entry == Head(entries) IN
       (IF entry # Null /\ entry.url # 0 /\ entry.title # 0
        THEN <<<<entry.url, entry.title, entry.duration>>>> ELSE <<>>)
       \o SearchResults(Tail(entries))

(* helper.py:103-122: the call up to its first lookup.                     *)
search_youtube(query) ==
  [NoSearch EXCEPT !.pc = "lookup", !.query = SearchQuery(query),
                   !.asked = <<SearchQuery(query)>>]

(* helper.py:123: the lookup returned info; 126-136.                       *)
LookupReturned(c, info) ==
  [c EXCEPT !.pc = "returned", !.tried = Append(@, "ok"), !.info = info,
            !.result = SearchResults(info.entries)]

(* search_youtube backing off after every lookup that raised.              *)
LookupRaisedRetrying(c) ==
  [c EXCEPT !.tried = Append(@, "raise"), !.pc = IF Len(c.tried) < 2 THEN "sleep" ELSE "raised"]

(* helper.py:124-126: the first lookup raising is caught and the call      *)
(* sleeps; the second lookup is outside the try and its exception leaves   *)
(* the call.                                                               *)
LookupRaised(c) ==
  [c EXCEPT !.tried = Append(@, "raise"), !.pc = IF c.tried = <<>> THEN "sleep" ELSE "raised"]

(* helper.py:125-126: asyncio.sleep(1) is over, the lookup is made again.  *)
BackoffOver(c) ==
  [c EXCEPT !.pc = "lookup", !.slept = @ + 1, !.asked = Append(@, c.query)]

(* ------------------------------ tasks --------------------------------- *)
(* kind: the coroutine; pc: the suspension point it waits at; vc: the      *)
(* voice_client it holds; ret: the code that follows the call of           *)
(* send_or_edit_now_playing; m: the message being edited; force: the       *)
(* argument of disconnect(); title, seek, options: the source and player   *)
(* built before the await and handed to voice_client.play after it;        *)
(* cmdno: history, the number of the command the handler answers; todo:    *)
(* the guilds _progress_tick has yet to visit; keys, seen, shown: history, *)
(* the guilds its run started with, has visited, and has refreshed; embed: *)
(* history, the current track build_now_playing_embed read for the message *)
(* the call is editing or sending, kept for the calls that precede         *)
(* voice_client.play.                                                      *)
NoOptions == [flags |-> "", af |-> <<>>]
Task(kind, pc, g, vc) ==
  [kind |-> kind, pc |-> pc, g |-> g, vc |-> vc, ret |-> "done", m |-> 0,
   force |-> FALSE, title |-> 0, seek |-> 0, options |-> NoOptions, cmdno |-> 0,
   todo |-> <<>>, keys |-> {}, seen |-> {}, shown |-> {}, embed |-> NoTrack]

Spawn(s, t) == [s EXCEPT !.tasks = @ \cup {t}]
Finish(s, t) == [s EXCEPT !.tasks = @ \ {t}]
Replace(s, t, u) == [s EXCEPT !.tasks = (@ \ {t}) \cup {u}]
Move(s, t, pc) == Replace(s, t, [t EXCEPT !.pc = pc])

(* ------------------------- helper.py: filters ------------------------- *)
Min(a, b) == IF a < b THEN a ELSE b
Max(a, b) == IF a > b THEN a ELSE b

(* a build_filter_chain that writes the levels as they are.                *)
build_filter_chain_unclamped(bass, treb, vocal) ==
  LET filters ==
        (IF bass > 0 THEN <<[f |-> "bass=g=", g |-> bass]>> ELSE <<>>)
        \o (IF treb > 0 THEN <<[f |-> "treble=g=", g |-> treb]>> ELSE <<>>)
        \o (IF vocal > 0
            THEN <<[f |-> "equalizer=f=3000:width_type=h:width=2000:g=", g |-> vocal]>>
            ELSE <<>>)
  IN  IF filters = <<>>
      THEN [flags |-> "-vn", af |-> <<>>]
      ELSE [flags |-> "-vn -af", af |-> filters \o <<[f |-> "volume=", g |-> 1]>>]

(* build_filter_chain.  The argument string is kept as its parts: "-vn",   *)
(* and the terms of -af "...,volume=1" (none: the option is not given).    *)
build_filter_chain(bass, treb, vocal) ==
  LET filters ==
        (IF bass > 0 THEN <<[f |-> "bass=g=", g |-> Min(bass, 5)]>> ELSE <<>>)
        \o (IF treb > 0 THEN <<[f |-> "treble=g=", g |-> Min(treb, 5)]>> ELSE <<>>)
        \o (IF vocal > 0
            THEN <<[f |-> "equalizer=f=3000:width_type=h:width=2000:g=", g |-> Min(vocal, 5)]>>
            ELSE <<>>)
  IN  IF filters = <<>>
      THEN [flags |-> "-vn", af |-> <<>>]
      ELSE [flags |-> "-vn -af", af |-> filters \o <<[f |-> "volume=", g |-> 1]>>]

Options(s, g) == build_filter_chain(s.bass[g], s.treble[g], s.vocal[g])

(* ------------------- discord.py: the voice client --------------------- *)
IsPlaying(vc) == vc.stream = "playing"
IsPaused(vc) == vc.stream = "paused"
IsConnected(vc) == vc.state = "connected"

(* vc.stop(): the player is told to end and is detached from the client;   *)
(* its thread then runs the `after` it was started with.                   *)
VcStop(s, v) ==
  IF s.vcs[v].stream \in {"playing", "paused"}
  THEN [s EXCEPT !.vcs[v].stream = "none",
                 !.cbs = @ \cup {[vc |-> v, g |-> s.vcs[v].g, after |-> s.vcs[v].after]}]
  ELSE s

(* a play() that starts the player whatever the state of the client.       *)
CanPlayUnchecked(s, v) == TRUE

(* voice_client.play raises ClientException when the client is not         *)
(* connected or is_playing(); a paused player is not playing and is        *)
(* replaced without being ended.                                           *)
CanPlay(s, v) == IsConnected(s.vcs[v]) /\ ~IsPlaying(s.vcs[v])

VcPlay(s, t, after) ==
  [s EXCEPT !.vcs[t.vc].stream = "playing", !.vcs[t.vc].after = after,
            !.vcs[t.vc].title = t.title, !.vcs[t.vc].seek = t.seek,
            !.vcs[t.vc].options = t.options, !.event.played = t.vc]

(* vc.disconnect(force): returns at once when not forced and not           *)
(* connected; otherwise stops the player, is no longer connected from the  *)
(* call on, and once the gateway has answered removes the client from the  *)
(* guild (cleanup).                                                        *)
DisconnectSuspends(s, v, force) == force \/ IsConnected(s.vcs[v])

VcDisconnectBegin(s, v) == [VcStop(s, v) EXCEPT !.vcs[v].state = "closing"]

VcDisconnectEnd(s, v) ==
  [s EXCEPT !.vcs[v].state = "closed",
            !.gvc[s.vcs[v].g] = IF @ = v THEN 0 ELSE @]

(* ------------------ helper.py: send_or_edit_now_playing ---------------- *)
(* What a coroutine does when send_or_edit_now_playing has returned.       *)
(*  "done":  the handler ends.                                             *)
(*  "grace": play_next, bot.py:108, await asyncio.sleep(1).                *)
(*  "play":  play_next, bot.py:183, voice_client.play(player, after).      *)
(*  "rplay": restart_same_track, bot.py:243, and its except, 245-248: the  *)
(*           fallback play_next is handed to the loop and the loop thread  *)
(*           waits for it in fut.result().                                 *)
(*  "tick":  _progress_tick, bot.py:688-709, goes on to the next guild.    *)
RestartFallback(s, t) ==
  Move(Spawn(s, Task("play_next", "start", t.g, t.vc)), t, "fut_result")

RECURSIVE ProgressLoop(_, _)

PlayRefused(s, t) ==
  [s EXCEPT !.event.refused = TRUE, !.event.g = t.g, !.event.played = t.vc]

AfterRefresh(s, t) ==
  CASE t.ret = "done"  -> Finish(s, t)
    [] t.ret = "grace" -> Move(s, t, "sleep")
    [] t.ret = "play"  ->
         IF CanPlay(s, t.vc)
         THEN Finish(VcPlay(s, t, "play_next"), t)
         ELSE [Finish(PlayRefused(s, t), t) EXCEPT !.startError[t.g] = "play"]
    [] t.ret = "rplay" ->
         IF CanPlay(s, t.vc)
         THEN Finish(VcPlay(s, t, "restart"), t)
         ELSE RestartFallback(PlayRefused(s, t), t)
    [] t.ret = "tick"  -> ProgressLoop(s, t)

(* helper.py:315-338: no channel, return; the embed is built from the      *)
(* dictionaries as they are at the call; a recorded message, await         *)
(* msg.edit; none, await channel.send.                                     *)
RefreshBegin(s, t) ==
  LET embed == IF t.ret \in {"play", "rplay"} THEN s.track[t.g] ELSE NoTrack IN
  IF ~s.chan[t.g] THEN AfterRefresh(s, t)
  ELSE IF s.msg[t.g] # 0
       THEN Replace(s, t, [t EXCEPT !.pc = "edit", !.m = s.msg[t.g], !.embed = embed])
       ELSE Replace(s, t, [t EXCEPT !.pc = "send", !.m = 0, !.embed = embed])

(* an edit whose failure is passed over: the reference is kept and no      *)
(* message is sent.                                                        *)
EditReturnedKeeping(s, t, ok) == AfterRefresh(s, t)

(* helper.py:338-341: the edit returned, or raised NotFound/HTTPException  *)
(* and the reference is forgotten before channel.send is awaited.          *)
EditReturned(s, t, ok) ==
  IF ok THEN AfterRefresh(s, t)
  ELSE Replace([s EXCEPT !.msg[t.g] = 0, !.event.forgot = t.m], t,
               [t EXCEPT !.pc = "send", !.m = 0])

(* helper.py:344-348: the new message is recorded; HTTPException is passed.*)
FreshIds(s, g) ==
  {m \in 1..MaxMsgs : m \notin s.live[g] /\ \A t \in s.tasks : ~(t.g = g /\ t.m = m)}
FreshMessage(s, g) == CHOOSE m \in FreshIds(s, g) : \A n \in FreshIds(s, g) : m <= n

SendReturned(s, t, ok) ==
  IF ok
  THEN LET m == FreshMessage(s, t.g) IN
       AfterRefresh([s EXCEPT !.live[t.g] = @ \cup {m}, !.msg[t.g] = m], t)
  ELSE AfterRefresh(s, t)

(* One whole call of send_or_edit_now_playing for guild g that no other    *)
(* coroutine interleaves with. edit: msg.edit raises nothing, which it can *)
(* only do when the message exists; send: channel.send raises nothing.     *)
SyncTask(s) == CHOOSE t \in s.tasks : t.kind = "sync"
SyncAt(s, pc) == \E t \in s.tasks : t.kind = "sync" /\ t.pc = pc
Sync(s, g, edit, send) ==
  LET t == Task("sync", "refresh", g, 0)
      s1 == RefreshBegin(Spawn(s, t), t)
      s2 == IF SyncAt(s1, "edit")
            THEN EditReturned(s1, SyncTask(s1), edit /\ SyncTask(s1).m \in s1.live[g])
            ELSE s1
  IN  IF SyncAt(s2, "send") THEN SendReturned(s2, SyncTask(s2), send) ELSE s2

(* send_or_edit_now_playing called by task t, which continues at `ret`.    *)
Refresh(s, t, ret) ==
  LET u == [t EXCEPT !.ret = ret, !.pc = "refresh"] IN RefreshBegin(Replace(s, t, u), u)

(* ------------------------ bot.py: _progress_tick ---------------------- *)
(* bot.py:689-693: the guild is refreshed when it has a current track and  *)
(* its voice client has a stream playing or paused.                        *)
Refreshable(s, g) ==
  /\ s.track[g] # NoTrack
  /\ s.gvc[g] # 0
  /\ (IsPlaying(s.vcs[s.gvc[g]]) \/ IsPaused(s.vcs[s.gvc[g]]))

(* bot.py:689-711: the loop over the guilds, from task t on, up to the     *)
(* next await of send_or_edit_now_playing or to the end of the run.        *)
ProgressLoop(s, t) ==
  IF t.todo = <<>>
  THEN [Finish(s, t) EXCEPT !.event = [@ EXCEPT !.op = "tick", !.keys = t.keys,
                                                !.seen = t.seen, !.shown = t.shown]]
  ELSE LET g == Head(t.todo)
           u == [t EXCEPT !.todo = Tail(@), !.g = g, !.seen = @ \cup {g}]
       IN  IF Refreshable(s, g)
           THEN LET w == [u EXCEPT !.shown = @ \cup {g}] IN
                Refresh(Replace(s, t, w), w, "tick")
           ELSE ProgressLoop(Replace(s, t, u), u)

(* a run that an exception raised by send_or_edit_now_playing ends.        *)
ProgressRaisedEnding(s, t) ==
  [Finish(s, t) EXCEPT !.event = [@ EXCEPT !.op = "tick", !.keys = t.keys,
                                           !.seen = t.seen, !.shown = t.shown]]

(* bot.py:710-711: send_or_edit_now_playing raised; the exception is       *)
(* passed over and the loop goes on.                                       *)
ProgressRaised(s, t) ==
  ProgressLoop([s EXCEPT !.event = [NoEvent EXCEPT !.op = "raised", !.g = t.g]], t)

(* bot.py:689: the run starts with the keys NOW_PLAYING_MESSAGES has then. *)
ProgressKeys(s) == {g \in Guilds : s.msg[g] # 0}
progress_tick(s, order) ==
  LET t == [Task("progress_tick", "tick", 0, 0) EXCEPT
              !.todo = order, !.keys = ProgressKeys(s)]
  IN  ProgressLoop(Spawn(s, t), t)

(* ----------------------------- history -------------------------------- *)
(* A stream-end has been handled for guild g by `op`, which found queue q. *)
(* If an accepted effect change was waiting for it, the event carries what *)
(* that change had recorded.                                               *)
Handled(s, g, op, by, q) ==
  [s EXCEPT !.lastChange[g] = NoChange, !.lastSkip[g] = 0,
            !.event = [NoEvent EXCEPT !.op = op, !.g = g, !.by = by, !.q = q,
                                      !.change = s.lastChange[g], !.skip = s.lastSkip[g]]]

(* --------------------------- bot.py: play_next ------------------------ *)
Volume(s, g) == IF s.players[g] # None THEN s.players[g] ELSE 100

(* play_next calling send_or_edit_now_playing before it records the track. *)
PlayNextStartRefreshingFirst(s, t, by, resolved) ==
  LET g == t.g IN
  IF s.q[g] = <<>>
  THEN Refresh(Handled([s EXCEPT !.track[g] = NoTrack, !.players[g] = None],
                       g, "idle", by, <<>>), t, "grace")
  ELSE LET title == Head(s.q[g])
           s1 == [s EXCEPT !.q[g] = Tail(@)]
       IN  IF ~resolved
           THEN [Finish(s1, t) EXCEPT !.startError[g] = "resolve", !.lastSkip[g] = 0,
                                      !.event = [NoEvent EXCEPT !.op = "start_failed", !.g = g,
                                                                !.by = by, !.q = s.q[g],
                                                                !.skip = s.lastSkip[g]]]
           ELSE LET u == [t EXCEPT !.title = title, !.seek = 0, !.options = Options(s1, g)]
                    s2 == Refresh(Replace(Handled(s1, g, "start", by, s.q[g]), t, u), u, "play")
                IN  [s2 EXCEPT
                       !.players[g] = Volume(s1, g),
                       !.track[g] = [title |-> title, duration |-> Duration(title),
                                     started_at |-> now, seek_offset |-> 0],
                       !.startError[g] = "none"]

(* bot.py:90-157, up to the await of send_or_edit_now_playing.  `resolved` *)
(* is whether _get_audio_url (and the FFmpegPCMAudio built from it)        *)
(* returned; _get_audio_url never suspends, it blocks in yt_dlp.           *)
PlayNextStart(s, t, by, resolved) ==
  LET g == t.g IN
  IF s.q[g] = <<>>
  THEN Refresh(Handled([s EXCEPT !.track[g] = NoTrack, !.players[g] = None],
                       g, "idle", by, <<>>), t, "grace")
  ELSE LET title == Head(s.q[g])
           s1 == [s EXCEPT !.q[g] = Tail(@)]
       IN  IF ~resolved
           THEN [Finish(s1, t) EXCEPT !.startError[g] = "resolve", !.lastSkip[g] = 0,
                                      !.event = [NoEvent EXCEPT !.op = "start_failed", !.g = g,
                                                                !.by = by, !.q = s.q[g],
                                                                !.skip = s.lastSkip[g]]]
           ELSE LET s2 == [s1 EXCEPT
                             !.players[g] = Volume(s1, g),
                             !.track[g] = [title |-> title, duration |-> Duration(title),
                                           started_at |-> now, seek_offset |-> 0],
                             !.startError[g] = "none"]
                    u == [t EXCEPT !.title = title, !.seek = 0, !.options = Options(s1, g)]
                IN  Refresh(Replace(Handled(s2, g, "start", by, s.q[g]), t, u), u, "play")

(* bot.py:108-113: the grace delay is over; disconnect, errors swallowed.  *)
PlayNextDisconnect(s, t) ==
  IF DisconnectSuspends(s, t.vc, FALSE)
  THEN Move(VcDisconnectBegin(s, t.vc), t, "disc")
  ELSE Finish(s, t)

(* ----------------------- bot.py: restart_same_track ------------------- *)
(* bot.py:189-193: restart_same_track returns, having found the pending    *)
(* restart or the current track missing.                                   *)
RestartNothing(s, t, missing) ==
  [Finish(s, t) EXCEPT !.event = [NoEvent EXCEPT !.op = "restart_idle", !.g = t.g,
                                                 !.by = missing]]

(* restart_same_track raising when the pending restart or the current      *)
(* track is missing, which takes it to its except clause.                  *)
RestartStartRaising(s, t, resolved) ==
  LET g == t.g
      pending == s.pending[g]
      s1 == [s EXCEPT !.pending[g] = None]
  IN  IF pending = None \/ s1.track[g] = NoTrack \/ ~resolved THEN RestartFallback(s1, t)
      ELSE LET elapsed == Max(0, pending)
               s2 == [s1 EXCEPT !.players[g] = Volume(s1, g),
                                !.track[g].seek_offset = elapsed,
                                !.track[g].started_at = now]
               u == [t EXCEPT !.title = s1.track[g].title, !.seek = elapsed,
                              !.options = Options(s1, g)]
           IN  Refresh(Replace(Handled(s2, g, "restart", "callback", s.q[g]), t, u), u, "rplay")

(* bot.py:187-229, up to the await of send_or_edit_now_playing.            *)
RestartStart(s, t, resolved) ==
  LET g == t.g
      pending == s.pending[g]
      s1 == [s EXCEPT !.pending[g] = None]
  IN  IF pending = None THEN RestartNothing(s1, t, "pending")
      ELSE IF s1.track[g] = NoTrack THEN RestartNothing(s1, t, "track")
      ELSE IF ~resolved THEN RestartFallback(s1, t)
      ELSE LET elapsed == Max(0, pending)
               s2 == [s1 EXCEPT !.players[g] = Volume(s1, g),
                                !.track[g].seek_offset = elapsed,
                                !.track[g].started_at = now]
               u == [t EXCEPT !.title = s1.track[g].title, !.seek = elapsed,
                              !.options = Options(s1, g)]
           IN  Refresh(Replace(Handled(s2, g, "restart", "callback", s.q[g]), t, u), u, "rplay")

(* a callback that consumes PENDING_RESTART itself, on the player thread.  *)
after_play_consuming(s, c) ==
  LET s1 == [s EXCEPT !.cbs = @ \ {c}, !.pending[c.g] = None] IN
  IF c.after = "play_next" /\ s.pending[c.g] # None
  THEN Spawn(s1, Task("restart_same_track", "start", c.g, c.vc))
  ELSE Spawn(s1, Task("play_next", "start", c.g, c.vc))

(* bot.py:159-181 and 231-241: after_play, on the player thread.  The one  *)
(* of play_next reads PENDING_RESTART; the one of restart_same_track does  *)
(* not.  Each hands a coroutine to the loop and waits for it.              *)
after_play(s, c) ==
  LET s1 == [s EXCEPT !.cbs = @ \ {c}] IN
  IF c.after = "play_next" /\ s.pending[c.g] # None
  THEN Spawn(s1, Task("restart_same_track", "start", c.g, c.vc))
  ELSE Spawn(s1, Task("play_next", "start", c.g, c.vc))

(* ------------------------------ commands ------------------------------ *)
(* The defer that opens a handler and the followup.send that reports its   *)
(* result touch no guild state; each is folded into the suspension next to *)
(* it, so a handler starts at the first statement that reads the state.    *)

(* bot.py:273-294, once search_youtube has returned a non-empty list.      *)
(* connect() registers the new client as guild.voice_client before it      *)
(* suspends for the handshake.                                             *)
FreeVcs(s) == {v \in 1..MaxVc : s.vcs[v].state = "unused"}
(* a /play that assigns the results to the queue instead of extending it.  *)
play_cmd_replacing(s, g, results) ==
  LET s1 == [s EXCEPT !.chan[g] = TRUE, !.q[g] = results, !.stopped[g] = "no",
                      !.event = [NoEvent EXCEPT !.op = "enqueue", !.g = g, !.q = s.q[g]]] IN
  IF s1.gvc[g] = 0
  THEN LET v == CHOOSE v \in FreeVcs(s) : \A w \in FreeVcs(s) : v <= w IN
       Spawn([s1 EXCEPT !.vcs[v] = [NoVc EXCEPT !.g = g, !.state = "connecting"],
                        !.gvc[g] = v],
             Task("play_cmd", "connect", g, v))
  ELSE LET t == Task("play_cmd", "refresh", g, 0) IN RefreshBegin(Spawn(s1, t), t)

(* a /play that runs play_next on the voice client the guild already has. *)
play_cmd_starting(s, g, results) ==
  LET s1 == [s EXCEPT !.chan[g] = TRUE, !.q[g] = @ \o results, !.stopped[g] = "no",
                      !.event = [NoEvent EXCEPT !.op = "enqueue", !.g = g, !.q = s.q[g]]] IN
  IF s1.gvc[g] = 0
  THEN LET v == CHOOSE v \in FreeVcs(s) : \A w \in FreeVcs(s) : v <= w IN
       Spawn([s1 EXCEPT !.vcs[v] = [NoVc EXCEPT !.g = g, !.state = "connecting"],
                        !.gvc[g] = v],
             Task("play_cmd", "connect", g, v))
  ELSE Spawn(s1, Task("play_next", "start", g, s1.gvc[g]))

play_cmd(s, g, results) ==
  LET s1 == [s EXCEPT !.chan[g] = TRUE, !.q[g] = @ \o results, !.stopped[g] = "no",
                      !.event = [NoEvent EXCEPT !.op = "enqueue", !.g = g, !.q = s.q[g]]] IN
  IF s1.gvc[g] = 0
  THEN LET v == CHOOSE v \in FreeVcs(s) : \A w \in FreeVcs(s) : v <= w IN
       Spawn([s1 EXCEPT !.vcs[v] = [NoVc EXCEPT !.g = g, !.state = "connecting"],
                        !.gvc[g] = v],
             Task("play_cmd", "connect", g, v))
  ELSE LET t == Task("play_cmd", "refresh", g, 0) IN RefreshBegin(Spawn(s1, t), t)

(* bot.py:279-280: connect() returned the client, play_next runs inline;   *)
(* or connect() raised because the client was disconnected meanwhile, and  *)
(* the handler reports the error (bot.py:306-311).                         *)
play_cmd_connected(s, t, resolved) ==
  IF s.vcs[t.vc].state = "connecting"
  THEN LET u == [t EXCEPT !.kind = "play_next", !.pc = "start"] IN
       PlayNextStart(Replace([s EXCEPT !.vcs[t.vc].state = "connected"], t, u), u,
                     "play_cmd", resolved)
  ELSE Finish(s, t)

(* bot.py:318, control.py:69: the condition under which skip calls stop(). *)
SkipStops(vc) == IsPlaying(vc)

(* bot.py:316-319 and control.py:66-72.                                    *)
skip_cmd(s, g) ==
  LET v == s.gvc[g]
      s0 == [s EXCEPT !.event = [NoEvent EXCEPT !.op = "skip", !.g = g, !.q = s.q[g]]]
      s1 == IF v # 0 /\ SkipStops(s.vcs[v])
            THEN [VcStop(s0, v) EXCEPT !.lastSkip[g] = s.vcs[v].title]
            ELSE s0
  IN  Spawn(s1, Task("skip_cmd", "refresh", g, 0))

(* bot.py:340-342 and 349-351.                                             *)
pause_cmd(s, g) ==
  LET v == s.gvc[g] IN
  IF v # 0 /\ IsPlaying(s.vcs[v]) THEN [s EXCEPT !.vcs[v].stream = "paused"] ELSE s
resume_cmd(s, g) ==
  LET v == s.gvc[g] IN
  IF v # 0 /\ IsPaused(s.vcs[v]) THEN [s EXCEPT !.vcs[v].stream = "playing"] ELSE s

(* bot.py:390-398: /volume. The volume is held in percent; the player of   *)
(* CURRENT_PLAYERS is the object the voice client plays.                   *)
SetVolume(s, g, percent) ==
  Spawn([s EXCEPT !.players[g] = percent, !.volumeSet[g] = percent,
                  !.event = [NoEvent EXCEPT !.op = "volume", !.g = g, !.level = percent]],
        Task("volume_cmd", "refresh", g, 0))

volume_cmd(s, g, level) ==
  IF ~(0 <= level /\ level <= 100) THEN s
  ELSE IF s.players[g] = None THEN s
  ELSE SetVolume(s, g, level)

(* control.py:93-113: the volume buttons, a tenth down or up.              *)
btn_vol_down(s, g) ==
  IF s.players[g] = None THEN s ELSE SetVolume(s, g, Max(0, s.players[g] - 10))
btn_vol_up(s, g) ==
  IF s.players[g] = None THEN s ELSE SetVolume(s, g, Min(100, s.players[g] + 10))

(* bot.py:365-367, control.py:86-89: the state stop clears.                *)
stop_clear(s, g, quiet) ==
  [s EXCEPT !.q[g] = <<>>, !.track[g] = NoTrack, !.players[g] = None,
            !.stopped[g] = IF @ = "no" THEN "no" ELSE "yes", !.lastChange[g] = NoChange,
            !.lastSkip[g] = 0,
            !.event = [NoEvent EXCEPT !.op = "stop", !.g = g, !.quiet = quiet]]

(* bot.py:360-367 (force = FALSE) and control.py:79-89 (force = TRUE).     *)
stop_cmd(s, g, force) ==
  LET v == s.gvc[g]
      t == [Task("stop_cmd", "disc", g, v) EXCEPT !.force = force, !.cmdno = commands + 1]
      s0 == [s EXCEPT !.stopped[g] = "stopping"]
  IN  IF v # 0 /\ DisconnectSuspends(s, v, force)
      THEN Spawn(VcDisconnectBegin(s0, v), t)
      ELSE Spawn(stop_clear(IF v # 0 THEN VcStop(s0, v) ELSE s0, g, TRUE),
                 [t EXCEPT !.pc = "refresh"])

(* the awaited disconnect returned: bot.py:365-374.                        *)
stop_cmd_disconnected(s, t) ==
  Move(stop_clear(VcDisconnectEnd(s, t.vc), t.g, commands = t.cmdno), t, "refresh")

reset_done(s, t, quiet) ==
  [s EXCEPT !.event = [NoEvent EXCEPT !.op = "reset", !.g = t.g, !.quiet = quiet]]

(* reset_clear emptying every guild's queue.                               *)
reset_clear_every(s, t, quiet) ==
  LET g == t.g
      m == s.msg[g]
      s1 == [s EXCEPT !.q = [h \in Guilds |-> <<>>], !.track[g] = NoTrack,
                      !.players[g] = None,
                      !.pending[g] = None, !.bass[g] = 0, !.treble[g] = 0,
                      !.vocal[g] = 0, !.msg[g] = 0,
                      !.stopped[g] = IF @ = "no" THEN "no" ELSE "yes",
                      !.lastChange[g] = NoChange, !.lastSkip[g] = 0]
  IN  IF m # 0
      THEN Replace(s1, t, [t EXCEPT !.pc = "delete", !.m = m])
      ELSE Finish(reset_done([s1 EXCEPT !.chan[g] = FALSE], t, quiet), t)

(* bot.py:658-665 with helper.py:357-363: the dictionaries are popped, and *)
(* the handler suspends in msg.delete() only when a message was recorded.  *)
reset_clear(s, t, quiet) ==
  LET g == t.g
      m == s.msg[g]
      s1 == [s EXCEPT !.q[g] = <<>>, !.track[g] = NoTrack, !.players[g] = None,
                      !.pending[g] = None, !.bass[g] = 0, !.treble[g] = 0,
                      !.vocal[g] = 0, !.msg[g] = 0,
                      !.stopped[g] = IF @ = "no" THEN "no" ELSE "yes",
                      !.lastChange[g] = NoChange, !.lastSkip[g] = 0]
  IN  IF m # 0
      THEN Replace(s1, t, [t EXCEPT !.pc = "delete", !.m = m])
      ELSE Finish(reset_done([s1 EXCEPT !.chan[g] = FALSE], t, quiet), t)

(* bot.py:648-652.                                                         *)
reset_cmd(s, g) ==
  LET v == s.gvc[g]
      t == [Task("reset_cmd", "disc", g, v) EXCEPT !.force = TRUE, !.cmdno = commands + 1]
      s0 == [s EXCEPT !.stopped[g] = "stopping"]
  IN  IF v # 0 THEN Spawn(VcDisconnectBegin(s0, v), t)
      ELSE reset_clear(Spawn(s0, t), t, TRUE)

reset_cmd_disconnected(s, t) ==
  reset_clear(VcDisconnectEnd(s, t.vc), t, commands = t.cmdno)

(* helper.py:360-363 then bot.py:665: msg.delete() returned or raised.     *)
reset_cmd_deleted(s, t, ok) ==
  Finish(reset_done([s EXCEPT !.live[t.g] = IF ok THEN @ \ {t.m} ELSE @,
                              !.chan[t.g] = FALSE], t, commands = t.cmdno), t)

(* helper.py:238-242: the elapsed time build_now_playing_embed shows, at    *)
(* time `at`. A track of unknown duration has duration 0.                  *)
EmbedElapsed(track, at) ==
  Max(0, Min((at - track.started_at) + track.seek_offset, track.duration))

(* bot.py:433-438: the elapsed time an effect command records.             *)
Elapsed(track) ==
  LET started_at == IF track.started_at # 0 THEN track.started_at ELSE now
      elapsed == (now - started_at) + track.seek_offset
  IN  IF track.duration # 0
      THEN Min(Max(0, elapsed), Max(0, track.duration - 1))
      ELSE elapsed

(* an effect command that asks for a restart whenever the guild has a      *)
(* voice client.                                                           *)
effect_restart_always(s, g) ==
  LET v == s.gvc[g] IN
  IF v # 0
  THEN VcStop([s EXCEPT !.pending[g] = Elapsed(s.track[g]),
                        !.lastChange[g] = [title |-> s.track[g].title,
                                           elapsed |-> Elapsed(s.track[g])]], v)
  ELSE s

(* bot.py:429-443, 479-492, 528-541: the part the three commands share.    *)
effect_restart(s, g) ==
  LET v == s.gvc[g] IN
  IF v # 0 /\ (IsPlaying(s.vcs[v]) \/ IsPaused(s.vcs[v])) /\ s.track[g] # NoTrack
  THEN VcStop([s EXCEPT !.pending[g] = Elapsed(s.track[g]),
                        !.lastChange[g] = [title |-> s.track[g].title,
                                           elapsed |-> Elapsed(s.track[g])]], v)
  ELSE s

(* an effect command that stores whatever level it is given.               *)
effect_cmd_unchecked(s, g, levels, level) ==
  Spawn(effect_restart(levels, g), Task("effect_cmd", "refresh", g, 0))

(* bot.py:416-448, 466-497, 515-546: a level outside 0..5 is answered with *)
(* a message and nothing else is done.                                     *)
effect_cmd(s, g, levels, level) ==
  IF ~(0 <= level /\ level <= MaxLevel)
  THEN [s EXCEPT !.event = [levels.event EXCEPT !.op = "rejected"]]
  ELSE Spawn(effect_restart(levels, g), Task("effect_cmd", "refresh", g, 0))
EffectEvent(op, g, level) == [NoEvent EXCEPT !.op = op, !.g = g, !.level = level]
bassboost_cmd(s, g, level) ==
  effect_cmd(s, g, [s EXCEPT !.bass[g] = level,
                             !.event = EffectEvent("bassboost", g, level)], level)
trebleboost_cmd(s, g, level) ==
  effect_cmd(s, g, [s EXCEPT !.treble[g] = level,
                             !.event = EffectEvent("trebleboost", g, level)], level)
vocalboost_cmd(s, g, level) ==
  effect_cmd(s, g, [s EXCEPT !.vocal[g] = level,
                             !.event = EffectEvent("vocalboost", g, level)], level)

(* restart_same_track blocks the event-loop thread in fut.result()         *)
(* (bot.py:247-248); while it does, no coroutine and no command runs.      *)
LoopBlocked == \E t \in tasks : t.pc = "fut_result"

(* ------------------------------ inputs -------------------------------- *)
Results == {<<1>>, <<2>>, <<1, 2>>}       \* what search_youtube returned
LevelInputs == {0, 3}                     \* the level argument of an effect command
VolumeInputs == {5, 150}                  \* the level argument of /volume

(* ------------------------------ actions ------------------------------- *)
(* A step of the event loop: a command handler's first stretch (Command),  *)
(* or a suspended coroutine resuming (Resume).                             *)
Command(s) ==
  /\ ~LoopBlocked
  /\ commands < MaxCmds
  /\ commands' = commands + 1
  /\ Commit(s)
  /\ UNCHANGED <<now, active, search>>

Resume(s) ==
  /\ ~LoopBlocked
  /\ Commit(s)
  /\ UNCHANGED <<now, active, commands, search>>

PlayCmd ==
  \E g \in active, results \in Results :
    /\ guild_voice_client[g] = 0 => FreeVcs(Store) # {}
    /\ Task("play_cmd", "refresh", g, 0) \notin tasks
    /\ Command(play_cmd(Store, g, results))

SkipCmd ==
  \E g \in active :
    /\ Task("skip_cmd", "refresh", g, 0) \notin tasks
    /\ Command(skip_cmd(Store, g))

PauseCmd == \E g \in active : Command(pause_cmd(Store, g))

ResumeCmd == \E g \in active : Command(resume_cmd(Store, g))

StopCmd == \E g \in active : Command(stop_cmd(Store, g, FALSE))

BtnStop == \E g \in active : Command(stop_cmd(Store, g, TRUE))

ResetCmd == \E g \in active : Command(reset_cmd(Store, g))

BassboostCmd ==
  \E g \in active, level \in LevelInputs :
    /\ Task("effect_cmd", "refresh", g, 0) \notin tasks
    /\ Command(bassboost_cmd(Store, g, level))

TrebleboostCmd ==
  \E g \in active, level \in LevelInputs :
    /\ Task("effect_cmd", "refresh", g, 0) \notin tasks
    /\ Command(trebleboost_cmd(Store, g, level))

VocalboostCmd ==
  \E g \in active, level \in LevelInputs :
    /\ Task("effect_cmd", "refresh", g, 0) \notin tasks
    /\ Command(vocalboost_cmd(Store, g, level))

ConnectReturns ==
  \E t \in tasks, resolved \in BOOLEAN :
    /\ t.kind = "play_cmd" /\ t.pc = "connect"
    /\ Resume(play_cmd_connected(Store, t, resolved))

RunPlayNext ==
  \E t \in tasks, resolved \in BOOLEAN :
    /\ t.kind = "play_next" /\ t.pc = "start"
    /\ Resume(PlayNextStart(Store, t, "callback", resolved))

RunRestartSameTrack ==
  \E t \in tasks, resolved \in BOOLEAN :
    /\ t.kind = "restart_same_track" /\ t.pc = "start"
    /\ Resume(RestartStart(Store, t, resolved))

RefreshStarts ==
  \E t \in tasks :
    /\ t.pc = "refresh"
    /\ Resume(RefreshBegin(Store, t))

EditReturns ==
  \E t \in tasks, ok \in BOOLEAN :
    /\ t.pc = "edit"
    /\ ok <=> t.m \in channel_messages[t.g]
    /\ Resume(EditReturned(Store, t, ok))

SendReturns ==
  \E t \in tasks :
    /\ t.pc = "send"
    /\ FreshIds(Store, t.g) # {}
    /\ Resume(SendReturned(Store, t, TRUE))

SleepReturns ==
  \E t \in tasks :
    /\ t.kind = "play_next" /\ t.pc = "sleep"
    /\ Resume(PlayNextDisconnect(Store, t))

DisconnectReturns ==
  \E t \in tasks :
    /\ t.pc = "disc"
    /\ Resume(CASE t.kind = "play_next" -> Finish(VcDisconnectEnd(Store, t.vc), t)
                [] t.kind = "stop_cmd"  -> stop_cmd_disconnected(Store, t)
                [] t.kind = "reset_cmd" -> reset_cmd_disconnected(Store, t))

DeleteReturns ==
  \E t \in tasks, ok \in BOOLEAN :
    /\ t.kind = "reset_cmd" /\ t.pc = "delete"
    /\ Resume(reset_cmd_deleted(Store, t, ok))

(* The player thread: the source is exhausted, and the `after` callback.   *)
StreamEnds ==
  \E v \in 1..MaxVc :
    /\ IsPlaying(voice_clients[v])
    /\ Commit(VcStop(Store, v))
    /\ UNCHANGED <<now, active, commands, search>>

AfterPlay ==
  \E c \in callbacks :
    /\ Commit(after_play(Store, c))
    /\ UNCHANGED <<now, active, commands, search>>

Tick ==
  /\ now < MaxTime
  /\ now' = now + 1
  /\ UNCHANGED <<SONG_QUEUES, CURRENT_PLAYERS, CURRENT_TRACK, PENDING_RESTART,
                 BASSBOOST_LEVELS, TREBLEBOOST_LEVELS, VOCALBOOST_LEVELS,
                 NOW_PLAYING_CHANNELS, NOW_PLAYING_MESSAGES, voice_clients,
                 guild_voice_client, channel_messages, callbacks, tasks,
                 commands, active, lastChange, lastSkip, volumeSet, search,
                 stopped, startError>>
  /\ event' = NoEvent

(* --------------------------- specification ---------------------------- *)
(* bot.py:64-73: the dictionaries are empty when the module is loaded; the *)
(* ones of the effect levels are stated apart.                             *)
InitButLevels(guilds) ==
  /\ SONG_QUEUES = [g \in Guilds |-> <<>>]
  /\ CURRENT_PLAYERS = [g \in Guilds |-> None]
  /\ CURRENT_TRACK = [g \in Guilds |-> NoTrack]
  /\ PENDING_RESTART = [g \in Guilds |-> None]
  /\ NOW_PLAYING_CHANNELS = [g \in Guilds |-> FALSE]
  /\ NOW_PLAYING_MESSAGES = [g \in Guilds |-> 0]
  /\ voice_clients = [v \in 1..MaxVc |-> NoVc]
  /\ guild_voice_client = [g \in Guilds |-> 0]
  /\ channel_messages = [g \in Guilds |-> {}]
  /\ callbacks = {}
  /\ tasks = {}
  /\ now = 1
  /\ commands = 0
  /\ active = guilds
  /\ lastChange = [g \in Guilds |-> NoChange]
  /\ lastSkip = [g \in Guilds |-> 0]
  /\ volumeSet = [g \in Guilds |-> None]
  /\ search = NoSearch
  /\ event = NoEvent
  /\ stopped = [g \in Guilds |-> "no"]
  /\ startError = [g \in Guilds |-> "none"]

InitWith(guilds) ==
  /\ InitButLevels(guilds)
  /\ BASSBOOST_LEVELS = [g \in Guilds |-> 0]
  /\ TREBLEBOOST_LEVELS = [g \in Guilds |-> 0]
  /\ VOCALBOOST_LEVELS = [g \in Guilds |-> 0]

Init == InitWith({1})

Next ==
  \/ PlayCmd \/ SkipCmd \/ PauseCmd \/ ResumeCmd \/ StopCmd \/ BtnStop \/ ResetCmd
  \/ BassboostCmd \/ TrebleboostCmd \/ VocalboostCmd
  \/ ConnectReturns \/ RunPlayNext \/ RunRestartSameTrack
  \/ RefreshStarts \/ EditReturns \/ SendReturns \/ SleepReturns
  \/ DisconnectReturns \/ DeleteReturns
  \/ StreamEnds \/ AfterPlay \/ Tick

Spec == Init /\ [][Next]_vars

(* The bot serving both guilds, with /play of one track and /bassboost 3   *)
(* as the only commands. The event loop runs every coroutine that is ready *)
(* and the player thread runs every callback it owes, unless the loop      *)
(* thread is blocked; a stream that plays comes to its end.                *)
InitGuilds == InitWith(Guilds)

PlayOne ==
  \E g \in active :
    /\ guild_voice_client[g] = 0 => FreeVcs(Store) # {}
    /\ Task("play_cmd", "refresh", g, 0) \notin tasks
    /\ Command(play_cmd(Store, g, <<2>>))

BassboostOn ==
  \E g \in active :
    /\ Task("effect_cmd", "refresh", g, 0) \notin tasks
    /\ Command(bassboost_cmd(Store, g, 3))

NextPlayback ==
  \/ PlayOne \/ BassboostOn
  \/ ConnectReturns \/ RunPlayNext \/ RunRestartSameTrack
  \/ RefreshStarts \/ EditReturns \/ SendReturns \/ SleepReturns
  \/ DisconnectReturns
  \/ StreamEnds \/ AfterPlay

Progress ==
  \/ ConnectReturns \/ RunPlayNext \/ RunRestartSameTrack
  \/ RefreshStarts \/ EditReturns \/ SendReturns \/ SleepReturns
  \/ DisconnectReturns
  \/ StreamEnds \/ AfterPlay

Fairness == WF_vars(Progress)

SpecFair == InitGuilds /\ [][NextPlayback]_vars /\ Fairness

(* The bot serving one guild with /play, /volume, the volume buttons and   *)
(* /bassboost 3 as the only commands.                                      *)
VolumeCmd ==
  \E g \in active, level \in VolumeInputs :
    /\ Task("volume_cmd", "refresh", g, 0) \notin tasks
    /\ Command(volume_cmd(Store, g, level))

BtnVolDown ==
  \E g \in active :
    /\ Task("volume_cmd", "refresh", g, 0) \notin tasks
    /\ Command(btn_vol_down(Store, g))

BtnVolUp ==
  \E g \in active :
    /\ Task("volume_cmd", "refresh", g, 0) \notin tasks
    /\ Command(btn_vol_up(Store, g))

NextVolume ==
  \/ PlayCmd \/ VolumeCmd \/ BtnVolDown \/ BtnVolUp \/ BassboostOn
  \/ ConnectReturns \/ RunPlayNext \/ RunRestartSameTrack
  \/ RefreshStarts \/ EditReturns \/ SendReturns \/ SleepReturns
  \/ DisconnectReturns
  \/ StreamEnds \/ AfterPlay

SpecVolume == Init /\ [][NextVolume]_vars

(* build_filter_chain on its own: the three levels of guild 1 are any of   *)
(* LevelDomain, and the function is called for that guild to build the    *)
(* options of a player, once for each voice client.                        *)
LevelDomain == 0..(MaxLevel + 2)

InitFilter ==
  /\ InitButLevels({1})
  /\ \E bass \in LevelDomain, treb \in LevelDomain, vocal \in LevelDomain :
       /\ BASSBOOST_LEVELS = [g \in Guilds |-> IF g = 1 THEN bass ELSE 0]
       /\ TREBLEBOOST_LEVELS = [g \in Guilds |-> IF g = 1 THEN treb ELSE 0]
       /\ VOCALBOOST_LEVELS = [g \in Guilds |-> IF g = 1 THEN vocal ELSE 0]

BuildOptions ==
  \E g \in active, v \in 1..MaxVc :
    /\ voice_clients[v] = NoVc
    /\ Commit([Store EXCEPT !.vcs[v] = [NoVc EXCEPT !.g = g, !.state = "connected",
                                                   !.options = Options(Store, g)]])
    /\ UNCHANGED <<now, active, commands, search>>

SpecFilter == InitFilter /\ [][BuildOptions]_vars

(* send_or_edit_now_playing on its own: the display channel of each guild  *)
(* is known or not; the function is called once, or twice in succession;   *)
(* msg.edit and channel.send succeed or raise; a member deletes a message. *)
SetChannel ==
  \E g \in active :
    /\ ~NOW_PLAYING_CHANNELS[g]
    /\ Commit([Store EXCEPT !.chan[g] = TRUE])
    /\ UNCHANGED <<now, active, commands, search>>

SyncOnce ==
  \E g \in active, edit \in BOOLEAN, send \in BOOLEAN :
    /\ Cardinality(channel_messages[g]) + 1 <= MaxMsgs
    /\ Commit(Sync([Store EXCEPT !.event = [NoEvent EXCEPT !.op = "sync", !.g = g]],
                   g, edit, send))
    /\ UNCHANGED <<now, active, commands, search>>

SyncTwice ==
  \E g \in active, edit1 \in BOOLEAN, send1 \in BOOLEAN, edit2 \in BOOLEAN, send2 \in BOOLEAN :
    /\ Cardinality(channel_messages[g]) + 2 <= MaxMsgs
    /\ Commit(Sync(Sync([Store EXCEPT !.event = [NoEvent EXCEPT !.op = "sync_twice", !.g = g]],
                        g, edit1, send1), g, edit2, send2))
    /\ UNCHANGED <<now, active, commands, search>>

MessageDeleted ==
  \E g \in active, m \in 1..MaxMsgs :
    /\ m \in channel_messages[g]
    /\ Commit([Store EXCEPT !.live[g] = @ \ {m}])
    /\ UNCHANGED <<now, active, commands, search>>

NextSync == SetChannel \/ SyncOnce \/ SyncTwice \/ MessageDeleted

SpecSync == InitGuilds /\ [][NextSync]_vars

(* The bot serving both guilds with /play of one track, /pause and the     *)
(* periodic refresh, whose calls of send_or_edit_now_playing may raise.    *)
Orders(S) == {o \in UNION {[1..n -> S] : n \in 0..Cardinality(S)} :
                Len(o) = Cardinality(S) /\ {o[i] : i \in 1..Len(o)} = S}

ProgressTick ==
  \E order \in Orders(ProgressKeys(Store)) :
    /\ \A t \in tasks : t.kind # "progress_tick"
    /\ Resume(progress_tick(Store, order))

ProgressRaises ==
  \E t \in tasks :
    /\ t.kind = "progress_tick" /\ t.pc \in {"edit", "send"}
    /\ Resume(ProgressRaised(Store, t))

NextTick ==
  \/ PlayOne \/ PauseCmd
  \/ ConnectReturns \/ RunPlayNext
  \/ EditReturns \/ SendReturns \/ SleepReturns
  \/ DisconnectReturns
  \/ StreamEnds \/ AfterPlay
  \/ ProgressTick \/ ProgressRaises

SpecTick == InitGuilds /\ [][NextTick]_vars

(* ------------------------------ claims -------------------------------- *)
StreamActive(g) ==
  \E v \in 1..MaxVc :
    voice_clients[v].g = g /\ (IsPlaying(voice_clients[v]) \/ IsPaused(voice_clients[v]))
Disconnected(g) ==
  \A v \in 1..MaxVc : voice_clients[v].g = g => voice_clients[v].state \in {"closing", "closed"}
Quiescent(g) ==
  /\ \A t \in tasks : t.g # g
  /\ \A c \in callbacks : c.g # g
StreamEndHandled ==
  event.by = "callback" /\ event.op \in {"idle", "start", "start_failed", "restart"}

(* C1: the stream-end that follows an accepted effect change restarts the  *)
(* same track at the elapsed time the change recorded, and does not        *)
(* advance the queue; also when the stream ended was itself a restart.     *)
C1_EffectChangeRestartsSameTrack ==
  event.change # NoChange =>
    /\ event.op = "restart"
    /\ CURRENT_TRACK[event.g].title = event.change.title
    /\ CURRENT_TRACK[event.g].seek_offset = event.change.elapsed
    /\ SONG_QUEUES[event.g] = event.q

(* C2: once stop or reset has cleared the guild, and until the next /play, *)
(* no stream runs for it, it has no current track and its queue is empty,  *)
(* whatever play_next or restart_same_track was in flight.                 *)
C2_NoStreamAfterStop ==
  \A g \in Guilds :
    stopped[g] = "yes" => /\ ~StreamActive(g)
                          /\ CURRENT_TRACK[g] = NoTrack
                          /\ SONG_QUEUES[g] = <<>>

(* a start sequence that was suspended when stop ran has resumed after it  *)
(* and voice_client.play has refused the stream.                           *)
C2_StartResumesAfterStop == event.refused /\ stopped[event.g] = "yes"

(* C3: a restart whose stream start failed falls back to play_next and the *)
(* event loop keeps running: restart_same_track never holds the loop       *)
(* thread waiting for the play_next it has handed to that loop.            *)
C3_RestartFailureFallsBack == \A t \in tasks : t.pc # "fut_result"

(* C4: once a failed endpoint resolution in play_next has been dealt with  *)
(* and nothing more is scheduled for the guild, the guild plays the next   *)
(* entry or is idle: no current track and the voice connection closed.     *)
C4_ResolveFailureContinues ==
  \A g \in Guilds :
    (Quiescent(g) /\ startError[g] = "resolve") =>
      \/ StreamActive(g)
      \/ CURRENT_TRACK[g] = NoTrack /\ Disconnected(g)

(* C5: when a stream-end has been handled, PENDING_RESTART holds no entry  *)
(* for the guild, whichever stream it was that ended.                      *)
C5_PendingConsumedByStreamEnd ==
  StreamEndHandled => PENDING_RESTART[event.g] = None

(* C6: in every state, a guild has a current track exactly when its voice  *)
(* client has a stream playing or paused.                                  *)
C6_TrackIffStream ==
  \A g \in Guilds : CURRENT_TRACK[g] # NoTrack <=> StreamActive(g)

StopEffects(g) ==
  /\ SONG_QUEUES[g] = <<>>
  /\ CURRENT_TRACK[g] = NoTrack
  /\ CURRENT_PLAYERS[g] = None
  /\ ~StreamActive(g)
  /\ Disconnected(g)

(* C7: when /stop or the Stop button has cleared the guild, no other       *)
(* command having been issued since it was, the queue is empty, there is   *)
(* no current track, no player and no stream, and the voice client is      *)
(* disconnected.                                                           *)
C7_StopClears == (event.op = "stop" /\ event.quiet) => StopEffects(event.g)

(* C8: when hard reset completes, no other command having been issued      *)
(* since it was, the effects of stop hold, no restart is pending, the      *)
(* three levels are 0 and the display message and channel are forgotten.   *)
C8_ResetClears ==
  (event.op = "reset" /\ event.quiet) =>
    /\ StopEffects(event.g)
    /\ PENDING_RESTART[event.g] = None
    /\ BASSBOOST_LEVELS[event.g] = 0
    /\ TREBLEBOOST_LEVELS[event.g] = 0
    /\ VOCALBOOST_LEVELS[event.g] = 0
    /\ NOW_PLAYING_MESSAGES[event.g] = 0
    /\ ~NOW_PLAYING_CHANNELS[event.g]

(* C9: when a stream-end is handled with an empty queue, current track,    *)
(* player and stream are gone; and the voice client play_next was given is *)
(* eventually closed.                                                      *)
IdleOn(v) == \E t \in tasks : t.kind = "play_next" /\ t.ret = "grace" /\ t.vc = v
Closed(v) == voice_clients[v].state \in {"closed", "unused"}
C9_IdleThenClosed ==
  /\ [](event.op = "idle" => /\ CURRENT_TRACK[event.g] = NoTrack
                            /\ CURRENT_PLAYERS[event.g] = None
                            /\ ~StreamActive(event.g))
  /\ \A v \in 1..MaxVc : IdleOn(v) ~> Closed(v)

(* C10: a stream-end handled with no restart pending, no stop under way    *)
(* and a non-empty queue removes exactly the queue head and makes it the   *)
(* current track, at seek offset 0.                                        *)
C10_HeadBecomesCurrent ==
  ( /\ event.by = "callback" /\ event.op \in {"start", "start_failed"}
    /\ PENDING_RESTART[event.g] = None /\ stopped[event.g] = "no" ) =>
    /\ SONG_QUEUES[event.g] = Tail(event.q)
    /\ CURRENT_TRACK[event.g].title = Head(event.q)
    /\ CURRENT_TRACK[event.g].seek_offset = 0

(* C11: when the connect() of a /play on a guild without voice client has *)
(* returned and play_next has run for it, the head of the queue is the     *)
(* current track at seek offset 0 and the queue holds the rest, in order.  *)
C11_PlayStartsHead ==
  (event.by = "play_cmd" /\ event.op \in {"start", "start_failed"}) =>
    /\ CURRENT_TRACK[event.g].title = Head(event.q)
    /\ CURRENT_TRACK[event.g].seek_offset = 0
    /\ SONG_QUEUES[event.g] = Tail(event.q)

IsPrefix(p, q) == Len(p) <= Len(q) /\ \A i \in 1..Len(p) : p[i] = q[i]

(* C12: a /play on a guild whose stream is playing or paused only appends: *)
(* current track, voice clients and streams, pending restart, levels and   *)
(* player volume are unchanged and the queued entries stay in front, in    *)
(* order.                                                                  *)
C12_EnqueueOnlyAppends ==
  [][\A g \in Guilds :
       (event'.op = "enqueue" /\ event'.g = g /\ StreamActive(g)) =>
         /\ CURRENT_TRACK' = CURRENT_TRACK
         /\ voice_clients' = voice_clients
         /\ callbacks' = callbacks
         /\ PENDING_RESTART' = PENDING_RESTART
         /\ BASSBOOST_LEVELS' = BASSBOOST_LEVELS
         /\ TREBLEBOOST_LEVELS' = TREBLEBOOST_LEVELS
         /\ VOCALBOOST_LEVELS' = VOCALBOOST_LEVELS
         /\ CURRENT_PLAYERS' = CURRENT_PLAYERS
         /\ IsPrefix(SONG_QUEUES[g], SONG_QUEUES'[g])
         /\ Len(SONG_QUEUES'[g]) > Len(SONG_QUEUES[g])]_vars

(* a /play has appended behind an entry already queued, a stream active.   *)
C12_EnqueuedBehind ==
  event.op = "enqueue" /\ StreamActive(event.g) /\ event.q # <<>>

(* The bot serving one guild with /play, /skip, /pause and /resume as the  *)
(* only commands, under the scheduling of SpecFair.                        *)
NextSkip ==
  \/ PlayCmd \/ SkipCmd \/ PauseCmd \/ ResumeCmd
  \/ ConnectReturns \/ RunPlayNext
  \/ RefreshStarts \/ EditReturns \/ SendReturns \/ SleepReturns
  \/ DisconnectReturns
  \/ StreamEnds \/ AfterPlay

SpecSkip == Init /\ [][NextSkip]_vars /\ Fairness

(* C13: a skip on a guild whose stream is playing or paused ends that      *)
(* stream and leaves PENDING_RESTART alone; the stream-end of a skipped    *)
(* stream is eventually handled, and handling it makes the queue head the  *)
(* current track at seek offset 0, or leaves the guild without current     *)
(* track, player and stream: the skipped track is not started again.       *)
C13_SkipAdvances ==
  /\ [][\A g \in Guilds :
          (event'.op = "skip" /\ event'.g = g /\ StreamActive(g)) =>
            /\ \A v \in 1..MaxVc : voice_clients'[v].g = g => voice_clients'[v].stream = "none"
            /\ PENDING_RESTART' = PENDING_RESTART]_vars
  /\ [](event.skip # 0 =>
          \/ /\ event.op = "start"
             /\ CURRENT_TRACK[event.g].title = Head(event.q)
             /\ CURRENT_TRACK[event.g].seek_offset = 0
             /\ SONG_QUEUES[event.g] = Tail(event.q)
          \/ /\ event.op = "idle"
             /\ CURRENT_TRACK[event.g] = NoTrack
             /\ CURRENT_PLAYERS[event.g] = None
             /\ ~StreamActive(event.g))
  /\ \A g \in Guilds : (lastSkip[g] # 0) ~> (lastSkip[g] = 0)

NoActiveTrack(g) == CURRENT_TRACK[g] = NoTrack \/ ~StreamActive(g)

(* C14: an effect command on a guild with no current track or no stream    *)
(* records the level, leaves PENDING_RESTART alone and ends no stream; and *)
(* a track start builds the filter arguments of its stream from the levels *)
(* recorded when it starts.                                                *)
C14_LevelRecordedForNextStart ==
  /\ [][\A g \in Guilds :
          (/\ event'.op \in {"bassboost", "trebleboost", "vocalboost"}
           /\ event'.g = g /\ NoActiveTrack(g)) =>
            /\ event'.op = "bassboost" => BASSBOOST_LEVELS'[g] = event'.level
            /\ event'.op = "trebleboost" => TREBLEBOOST_LEVELS'[g] = event'.level
            /\ event'.op = "vocalboost" => VOCALBOOST_LEVELS'[g] = event'.level
            /\ PENDING_RESTART' = PENDING_RESTART
            /\ voice_clients' = voice_clients
            /\ callbacks' = callbacks]_vars
  /\ [][event'.op = "start" =>
          LET g == event'.g
              options == build_filter_chain(BASSBOOST_LEVELS'[g], TREBLEBOOST_LEVELS'[g],
                                            VOCALBOOST_LEVELS'[g])
          IN  /\ \A t \in tasks' \ tasks : (t.g = g /\ t.ret = "play") => t.options = options
              /\ \A v \in 1..MaxVc :
                   (voice_clients'[v].g = g /\ IsPlaying(voice_clients'[v])
                      /\ ~IsPlaying(voice_clients[v])) => voice_clients'[v].options = options]_vars

(* bass boost 3 was asked for before the first track of the guild had      *)
(* started, and that track start has built its arguments with it.          *)
C14_StartWithRecordedLevel ==
  /\ event.op = "start" /\ event.by = "play_cmd" /\ commands = 2
  /\ BASSBOOST_LEVELS[event.g] = 3
  /\ \E t \in tasks : t.g = event.g /\ t.ret = "play" /\ t.options.af # <<>>

(* C15: a step of a stream-end callback, on the player thread, changes     *)
(* none of the per-guild dictionaries, voice clients or messages: it only  *)
(* hands one coroutine, play_next or restart_same_track, to the event      *)
(* loop, which runs it from its first statement.                           *)
C15_CallbackOnlySchedules ==
  [][(callbacks' # callbacks /\ callbacks' \subseteq callbacks) =>
       /\ UNCHANGED <<SONG_QUEUES, CURRENT_PLAYERS, CURRENT_TRACK, PENDING_RESTART,
                      BASSBOOST_LEVELS, TREBLEBOOST_LEVELS, VOCALBOOST_LEVELS,
                      NOW_PLAYING_CHANNELS, NOW_PLAYING_MESSAGES, voice_clients,
                      guild_voice_client, channel_messages>>
       /\ tasks \subseteq tasks'
       /\ \A t \in tasks' \ tasks :
            t.kind \in {"play_next", "restart_same_track"} /\ t.pc = "start"]_vars

(* a callback has found a restart pending and handed restart_same_track to *)
(* the loop; the entry is still there for that coroutine to consume.       *)
C15_RestartHandedOver ==
  \E t \in tasks : /\ t.kind = "restart_same_track" /\ t.pc = "start"
                   /\ PENDING_RESTART[t.g] # None

(* C16: a guild never has two streams playing or paused, and every call of *)
(* voice_client.play, accepted or refused, is made on a client that has no *)
(* stream playing or paused.                                               *)
C16_OneStreamPerGuild ==
  /\ [](\A g \in Guilds :
          \A v, w \in 1..MaxVc :
            ( /\ voice_clients[v].g = g /\ voice_clients[v].stream # "none"
              /\ voice_clients[w].g = g /\ voice_clients[w].stream # "none" ) => v = w)
  /\ [][event'.played # 0 => voice_clients[event'.played].stream = "none"]_vars

(* the stream of a restart has been started on the client that played the  *)
(* stream it replaces.                                                     *)
C16_RestartStreamStarted ==
  /\ event.played # 0 /\ ~event.refused
  /\ IsPlaying(voice_clients[event.played])
  /\ voice_clients[event.played].after = "restart"

(* C17: the channel of a guild never holds two Now Playing messages of the *)
(* bot; a message is created only when the channel holds none, and is the  *)
(* recorded one from then on.                                              *)
C17_OneLiveMessage ==
  /\ [](\A g \in Guilds : Cardinality(channel_messages[g]) <= 1)
  /\ [][\A g \in Guilds :
          (channel_messages'[g] \ channel_messages[g] # {}) =>
            /\ channel_messages[g] = {}
            /\ channel_messages'[g] = {NOW_PLAYING_MESSAGES'[g]}]_vars

(* C18: two calls of send_or_edit_now_playing in succession, nothing else  *)
(* happening in between, on a guild whose display channel is known create  *)
(* at most one message, leave at most one message of the bot in the        *)
(* channel, and any message they leave recorded is that one.               *)
C18_SyncTwiceCreatesOnce ==
  [][\A g \in Guilds :
       (event'.op = "sync_twice" /\ event'.g = g /\ NOW_PLAYING_CHANNELS[g]) =>
         /\ Cardinality(channel_messages'[g] \ channel_messages[g]) <= 1
         /\ Cardinality(channel_messages'[g]) <= 1
         /\ NOW_PLAYING_MESSAGES'[g] # 0 =>
              NOW_PLAYING_MESSAGES'[g] \in channel_messages'[g]]_vars

(* C19: a call of send_or_edit_now_playing that finds a recorded message   *)
(* which no longer exists returns to its caller whether or not the send    *)
(* succeeds; if it does, the new message is the recorded one, if not, no   *)
(* message is recorded: the deleted one never stays recorded.              *)
C19_DeadMessageReplaced ==
  [][\A g \in Guilds :
       ( /\ event'.op = "sync" /\ event'.g = g /\ NOW_PLAYING_CHANNELS[g]
         /\ NOW_PLAYING_MESSAGES[g] # 0
         /\ NOW_PLAYING_MESSAGES[g] \notin channel_messages[g] ) =>
         /\ tasks' = tasks
         /\ event'.forgot = NOW_PLAYING_MESSAGES[g]
         /\ channel_messages'[g] # channel_messages[g] =>
              NOW_PLAYING_MESSAGES'[g] \in channel_messages'[g] \ channel_messages[g]
         /\ channel_messages'[g] = channel_messages[g] => NOW_PLAYING_MESSAGES'[g] = 0]_vars

(* the edit of a deleted message has failed and its replacement is the     *)
(* only message of the channel, and the recorded one.                      *)
C19_ReplacementRecorded ==
  /\ event.op = "sync" /\ event.forgot # 0
  /\ channel_messages[event.g] = {NOW_PLAYING_MESSAGES[event.g]}

(* C20: while a track stays the current one, the elapsed time shown for it *)
(* never decreases unless its stream is paused, does not change while its  *)
(* stream is paused, and is at most duration - 1 when the duration is      *)
(* known.                                                                  *)
PausedOn(g) == \E v \in 1..MaxVc : voice_clients[v].g = g /\ IsPaused(voice_clients[v])
C20_ElapsedMonotone ==
  /\ [][\A g \in Guilds :
          ( /\ CURRENT_TRACK[g] # NoTrack /\ CURRENT_TRACK'[g] # NoTrack
            /\ ~(event'.g = g /\ event'.op = "start") ) =>
            /\ ~PausedOn(g) =>
                 EmbedElapsed(CURRENT_TRACK'[g], now') >= EmbedElapsed(CURRENT_TRACK[g], now)
            /\ (PausedOn(g) /\ PausedOn(g)') =>
                 EmbedElapsed(CURRENT_TRACK'[g], now') = EmbedElapsed(CURRENT_TRACK[g], now)]_vars
  /\ [](\A g \in Guilds :
          CURRENT_TRACK[g].duration # 0 =>
            EmbedElapsed(CURRENT_TRACK[g], now) <= CURRENT_TRACK[g].duration - 1)

(* C21: the options build_filter_chain returns for a guild are the same on *)
(* every call with the same levels; they are the ones of the levels cut at *)
(* 5; an effect contributes one term when its level is positive and none   *)
(* when it is 0; and they are the bare "-vn" exactly when the three levels *)
(* are 0.                                                                  *)
TermsOf(options, f) == {i \in 1..Len(options.af) : options.af[i].f = f}
C21_FilterChainPure ==
  \A v \in 1..MaxVc :
    voice_clients[v] # NoVc =>
      LET o == voice_clients[v].options
          g == voice_clients[v].g
          bass == BASSBOOST_LEVELS[g]
          treb == TREBLEBOOST_LEVELS[g]
          vocal == VOCALBOOST_LEVELS[g]
      IN  /\ \A w \in 1..MaxVc : voice_clients[w].g = g => voice_clients[w].options = o
          /\ o = build_filter_chain(Min(bass, MaxLevel), Min(treb, MaxLevel), Min(vocal, MaxLevel))
          /\ Cardinality(TermsOf(o, "bass=g=")) = (IF bass > 0 THEN 1 ELSE 0)
          /\ Cardinality(TermsOf(o, "treble=g=")) = (IF treb > 0 THEN 1 ELSE 0)
          /\ Cardinality(TermsOf(o, "equalizer=f=3000:width_type=h:width=2000:g="))
               = (IF vocal > 0 THEN 1 ELSE 0)
          /\ \A i \in TermsOf(o, "bass=g=") : o.af[i].g = Min(bass, MaxLevel)
          /\ (o = [flags |-> "-vn", af |-> <<>>]) <=> (bass = 0 /\ treb = 0 /\ vocal = 0)

(* the options were built twice for bass above 5, treble 0 and vocal 5:    *)
(* both times the bass term of level 5, no treble term, the vocal term.    *)
C21_ClampedAndOmitted ==
  /\ BASSBOOST_LEVELS[1] > MaxLevel /\ TREBLEBOOST_LEVELS[1] = 0 /\ VOCALBOOST_LEVELS[1] = MaxLevel
  /\ \A v \in 1..MaxVc :
       voice_clients[v].options.af =
         <<[f |-> "bass=g=", g |-> MaxLevel],
           [f |-> "equalizer=f=3000:width_type=h:width=2000:g=", g |-> MaxLevel],
           [f |-> "volume=", g |-> 1]>>

(* C22: the volume of a guild's player is between 0 and 100 percent; the   *)
(* player of a track started or restarted after a stream-end has the       *)
(* volume of the player before it; and the player of every track start or  *)
(* restart has the volume last set for the guild, 100 percent only when    *)
(* none was.                                                               *)
C22_VolumePersists ==
  /\ [](\A g \in Guilds :
          CURRENT_PLAYERS[g] # None => (0 <= CURRENT_PLAYERS[g] /\ CURRENT_PLAYERS[g] <= 100))
  /\ [][\A g \in Guilds :
          ( /\ event'.op \in {"start", "restart"} /\ event'.by = "callback" /\ event'.g = g
            /\ CURRENT_PLAYERS[g] # None ) => CURRENT_PLAYERS'[g] = CURRENT_PLAYERS[g]]_vars
  /\ [](event.op \in {"start", "restart"} =>
          CURRENT_PLAYERS[event.g] =
            (IF volumeSet[event.g] # None THEN volumeSet[event.g] ELSE 100))

(* C23: a run of _progress_tick visits every guild NOW_PLAYING_MESSAGES    *)
(* had a key for when the run started, also when the refresh of a guild    *)
(* raised; and it calls send_or_edit_now_playing for a guild it visits     *)
(* exactly when the guild has a current track and a stream playing or      *)
(* paused.                                                                 *)
TickSeen ==
  IF event.op = "tick" THEN event.seen
  ELSE UNION {t.seen : t \in {u \in tasks : u.kind = "progress_tick"}}
TickShown ==
  IF event.op = "tick" THEN event.shown
  ELSE UNION {t.shown : t \in {u \in tasks : u.kind = "progress_tick"}}
C23_TickRefreshesEveryGuild ==
  /\ [](event.op = "tick" => event.seen = event.keys)
  /\ [][\A g \in Guilds :
          (g \in TickSeen' /\ g \notin TickSeen) =>
            (g \in TickShown' <=> Refreshable(Store, g))]_vars

(* the refresh of one guild has raised and the run has gone on to call     *)
(* send_or_edit_now_playing for the other.                                 *)
C23_RefreshedAfterFailure ==
  /\ event.op = "raised"
  /\ \E t \in tasks : /\ t.kind = "progress_tick" /\ t.pc \in {"edit", "send"}
                       /\ t.g # event.g /\ t.shown = Guilds

(* The bot serving both guilds with /play of one track, /skip, /stop,      *)
(* /reset and /bassboost 3 as the commands.                                *)
NextFrame ==
  \/ PlayOne \/ SkipCmd \/ StopCmd \/ ResetCmd \/ BassboostOn
  \/ ConnectReturns \/ RunPlayNext \/ RunRestartSameTrack
  \/ RefreshStarts \/ EditReturns \/ SendReturns \/ SleepReturns
  \/ DisconnectReturns \/ DeleteReturns
  \/ StreamEnds \/ AfterPlay

SpecFrame == InitGuilds /\ [][NextFrame]_vars

(* What the dictionaries hold for guild g: get_queue(g) is SONG_QUEUES[g]. *)
GuildState(g) ==
  <<SONG_QUEUES[g], CURRENT_TRACK[g], CURRENT_PLAYERS[g], PENDING_RESTART[g],
    BASSBOOST_LEVELS[g], TREBLEBOOST_LEVELS[g], VOCALBOOST_LEVELS[g],
    NOW_PLAYING_CHANNELS[g], NOW_PLAYING_MESSAGES[g]>>
(* What runs for guild g: its voice clients and their streams, its         *)
(* coroutines and its stream-end callbacks.                                *)
GuildRuns(g) ==
  <<guild_voice_client[g],
    {<<v, voice_clients[v]>> : v \in {w \in 1..MaxVc : voice_clients[w].g = g}},
    {t \in tasks : t.g = g}, {c \in callbacks : c.g = g}>>

(* C24: a step (a command, a coroutine resuming, a stream ending, a        *)
(* callback) acts for one guild: it leaves the queue, current track,       *)
(* stream handle, pending restart, effect levels and display references,   *)
(* and also the voice clients, coroutines and callbacks, of every other    *)
(* guild as they were.                                                     *)
C24_GuildsIndependent ==
  [][\A a, b \in Guilds :
       (a # b /\ (GuildState(a)' # GuildState(a) \/ GuildRuns(a)' # GuildRuns(a)
                  \/ event'.g = a))
       => (GuildState(b)' = GuildState(b) /\ GuildRuns(b)' = GuildRuns(b))]_vars

(* /reset has cleared one guild while the other has a stream playing, a    *)
(* current track, a bass level and a live message.                         *)
C24_ResetBesideBusyGuild ==
  /\ event.op = "reset"
  /\ \E b \in Guilds \ {event.g} :
       /\ StreamActive(b) /\ CURRENT_TRACK[b] # NoTrack
       /\ BASSBOOST_LEVELS[b] = 3 /\ NOW_PLAYING_MESSAGES[b] # 0

(* search_youtube on its own, called again and again with a URL or a       *)
(* search term; a lookup raises or returns the info of one video or of a   *)
(* playlist or search with up to MaxEntries entries.                       *)
MaxEntries == 2
Queries == {[scheme |-> "http", text |-> 1], [scheme |-> "", text |-> 1]}
Entries == {Null} \cup [url : {0, 1}, title : {0, 1}, duration : {0, 2}]
Infos ==
  {[entries |-> <<e>>, single |-> TRUE] : e \in Entries \ {Null}}
  \cup {[entries |-> es, single |-> FALSE] :
          es \in UNION {[1..n -> Entries] : n \in 0..MaxEntries}}

Others ==
  <<SONG_QUEUES, CURRENT_PLAYERS, CURRENT_TRACK, PENDING_RESTART,
    BASSBOOST_LEVELS, TREBLEBOOST_LEVELS, VOCALBOOST_LEVELS,
    NOW_PLAYING_CHANNELS, NOW_PLAYING_MESSAGES, voice_clients,
    guild_voice_client, channel_messages, callbacks, tasks, now,
    commands, active, lastChange, lastSkip, volumeSet, event, stopped,
    startError>>

SearchCalled ==
  \E query \in Queries :
    /\ search.pc \in {"idle", "returned", "raised"}
    /\ search' = search_youtube(query)
    /\ UNCHANGED Others

LookupReturns ==
  \E info \in Infos :
    /\ search.pc = "lookup"
    /\ search' = LookupReturned(search, info)
    /\ UNCHANGED Others

LookupRaises ==
  /\ search.pc = "lookup"
  /\ search' = LookupRaised(search)
  /\ UNCHANGED Others

BackoffEnds ==
  /\ search.pc = "sleep"
  /\ search' = BackoffOver(search)
  /\ UNCHANGED Others

NextSearch == SearchCalled \/ LookupReturns \/ LookupRaises \/ BackoffEnds

SpecSearch == Init /\ [][NextSearch]_vars

(* C26: a call of search_youtube makes at most two lookups, both with the  *)
(* same query; the second is made exactly when the first raised, after one *)
(* backoff; the call returns the entries of the lookup that succeeded, and *)
(* raises only when both lookups raised.                                   *)
C26_RetriesOnce ==
  /\ Len(search.asked) <= 2 /\ Len(search.tried) <= Len(search.asked)
  /\ \A i \in 1..Len(search.asked) : search.asked[i] = search.query
  /\ Len(search.asked) = 2 <=> (search.tried # <<>> /\ search.tried[1] = "raise"
                                /\ search.pc # "sleep")
  /\ search.slept = (IF Len(search.asked) = 2 THEN 1 ELSE 0)
  /\ search.pc = "raised" <=> search.tried = <<"raise", "raise">>
  /\ search.pc = "returned" <=>
       (search.tried # <<>> /\ search.tried[Len(search.tried)] = "ok")
  /\ search.pc = "returned" => search.result = SearchResults(search.info.entries)

(* the first lookup raised and the call returned what the retry found.     *)
C26_RetryResultReturned ==
  /\ search.pc = "returned" /\ search.tried = <<"raise", "ok">>
  /\ search.slept = 1 /\ Len(search.result) = 2

(* A coroutine of play_next or restart_same_track suspended in the display *)
(* refresh that precedes its voice_client.play.                            *)
StartRefreshing(t) ==
  /\ t.kind \in {"play_next", "restart_same_track"}
  /\ t.ret \in {"play", "rplay"} /\ t.pc \in {"edit", "send"}

(* C25: the display refresh of a track start or restart renders the track  *)
(* the start has just recorded: the embed it edits or sends was built from *)
(* a current track with the title and seek offset of the stream about to   *)
(* start and, in the step that called the refresh, from CURRENT_TRACK as   *)
(* that step left it, started at the time of the step.                     *)
C25_RefreshAfterTrackRecorded ==
  /\ [](\A t \in tasks : StartRefreshing(t) =>
          /\ t.embed # NoTrack
          /\ t.embed.title = t.title /\ t.embed.seek_offset = t.seek)
  /\ [][\A t \in tasks' \ tasks :
          (StartRefreshing(t) /\ event'.op \in {"start", "restart"} /\ event'.g = t.g)
          => (t.embed = CURRENT_TRACK'[t.g] /\ t.embed.started_at = now')]_vars

(* a track start is editing the message of the previous track with the     *)
(* embed of the new one.                                                   *)
C25_NewTrackRendered ==
  \E t \in tasks :
    /\ StartRefreshing(t) /\ t.kind = "play_next" /\ t.pc = "edit"
    /\ event.op = "start" /\ event.by = "callback" /\ t.embed.title = 2
    /\ event.q = <<2>>

(* C27: when restart_same_track runs and finds no pending restart, or no   *)
(* current track, it ends there: the queues, the current tracks, the       *)
(* players and every stream are as they were, no coroutine is started (the *)
(* except clause with its fallback play_next is not entered) and no        *)
(* callback is owed.                                                       *)
C27_MissingStateIsIdle ==
  [][\A t \in tasks \ tasks' :
       (/\ t.kind = "restart_same_track" /\ t.pc = "start"
        /\ (PENDING_RESTART[t.g] = None \/ CURRENT_TRACK[t.g] = NoTrack))
       => /\ SONG_QUEUES' = SONG_QUEUES
          /\ CURRENT_TRACK' = CURRENT_TRACK /\ CURRENT_PLAYERS' = CURRENT_PLAYERS
          /\ \A v \in 1..MaxVc : voice_clients'[v].stream = voice_clients[v].stream
          /\ tasks' = tasks \ {t} /\ callbacks' = callbacks
          /\ PENDING_RESTART'[t.g] = None
          /\ ~event'.refused /\ event'.played = 0]_vars

(* restart_same_track has returned for want of a pending restart, which a  *)
(* stop or reset had removed after the callback scheduled the restart.     *)
C27_RestartFoundNothing ==
  /\ event.op = "restart_idle" /\ event.by = "pending"
  /\ stopped[event.g] = "yes"

(* The bot serving one guild with /play of one track and the three effect  *)
(* commands, whose level is any integer Discord passes on: below the       *)
(* range, its ends, and above it.                                          *)
EffectInputs == {0 - 1, 0, MaxLevel, MaxLevel + 1}

BassboostAny ==
  \E g \in active, level \in EffectInputs :
    /\ Task("effect_cmd", "refresh", g, 0) \notin tasks
    /\ Command(bassboost_cmd(Store, g, level))

TrebleboostAny ==
  \E g \in active, level \in EffectInputs :
    /\ Task("effect_cmd", "refresh", g, 0) \notin tasks
    /\ Command(trebleboost_cmd(Store, g, level))

VocalboostAny ==
  \E g \in active, level \in EffectInputs :
    /\ Task("effect_cmd", "refresh", g, 0) \notin tasks
    /\ Command(vocalboost_cmd(Store, g, level))

NextLevels ==
  \/ PlayOne \/ BassboostAny \/ TrebleboostAny \/ VocalboostAny
  \/ ConnectReturns \/ RunPlayNext \/ RunRestartSameTrack
  \/ RefreshStarts \/ EditReturns \/ SendReturns \/ SleepReturns
  \/ DisconnectReturns
  \/ StreamEnds \/ AfterPlay

SpecLevels == Init /\ [][NextLevels]_vars

StoredLevels(g) == <<BASSBOOST_LEVELS[g], TREBLEBOOST_LEVELS[g], VOCALBOOST_LEVELS[g]>>

(* C28: the stored bass, treble and vocal level of every guild is in 0..5  *)
(* in every state; an effect command given a level outside 0..5 changes no *)
(* stored level, no pending restart and no stream, and one given a level   *)
(* in 0..5 stores it.                                                      *)
C28_LevelsInRange ==
  /\ [](\A g \in Guilds : \A i \in 1..3 : StoredLevels(g)[i] \in 0..MaxLevel)
  /\ [][/\ (event'.op \in {"bassboost", "trebleboost", "vocalboost", "rejected"}
            /\ event'.level \notin 0..MaxLevel)
           => /\ event'.op = "rejected"
              /\ \A g \in Guilds : StoredLevels(g)' = StoredLevels(g)
              /\ PENDING_RESTART' = PENDING_RESTART
              /\ voice_clients' = voice_clients /\ callbacks' = callbacks
              /\ tasks' = tasks
        /\ (event'.op = "rejected" => event'.level \notin 0..MaxLevel)
        /\ (event'.op = "bassboost" => BASSBOOST_LEVELS'[event'.g] = event'.level)
        /\ (event'.op = "trebleboost" => TREBLEBOOST_LEVELS'[event'.g] = event'.level)
        /\ (event'.op = "vocalboost" => VOCALBOOST_LEVELS'[event'.g] = event'.level)]_vars

(* level 6 has been refused while a stream was playing with bass level 5.  *)
C28_RejectedWhilePlaying ==
  /\ event.op = "rejected" /\ event.level = MaxLevel + 1
  /\ StreamActive(event.g) /\ BASSBOOST_LEVELS[event.g] = MaxLevel

(* Something is still to run for guild g: a coroutine of one of its        *)
(* handlers, of play_next or of restart_same_track, or a stream-end        *)
(* callback.                                                               *)
StartInProgress(g) == ~Quiescent(g)

(* C29: whenever the queue of a guild holds a track and no stream of the   *)
(* guild is playing or paused, something that leads to a track start is    *)
(* still to run for the guild, provided no track start of the guild has    *)
(* failed and no stop or reset is under way.                               *)
C29_QueuedTrackStarts ==
  \A g \in Guilds :
    ( /\ SONG_QUEUES[g] # <<>> /\ ~StreamActive(g)
      /\ startError[g] = "none" /\ stopped[g] = "no" )
    => StartInProgress(g)

(* A restart of the guild's track is pending or in flight: the entry of    *)
(* PENDING_RESTART is there, or a stream-end callback or a coroutine of    *)
(* restart_same_track is yet to run.                                       *)
RestartInFlight(g) ==
  \/ PENDING_RESTART[g] # None
  \/ \E c \in callbacks : c.g = g
  \/ \E t \in tasks : t.g = g /\ t.kind = "restart_same_track"

(* C30: whenever a stream is playing for a guild and no restart is pending *)
(* or in flight, the filter arguments the stream was started with are      *)
(* build_filter_chain of the guild's current levels.                       *)
C30_StreamHasCurrentLevels ==
  \A g \in Guilds, v \in 1..MaxVc :
    (voice_clients[v].g = g /\ IsPlaying(voice_clients[v]) /\ ~RestartInFlight(g))
    => voice_clients[v].options =
         build_filter_chain(BASSBOOST_LEVELS[g], TREBLEBOOST_LEVELS[g], VOCALBOOST_LEVELS[g])

(* The bot serving one guild with /play of one track, /reset and           *)
(* /bassboost 3 as the commands: every display refresh is one of play_next,*)
(* of restart_same_track, of /play or of the effect command.               *)
NextReset ==
  \/ PlayOne \/ ResetCmd \/ BassboostOn
  \/ ConnectReturns \/ RunPlayNext \/ RunRestartSameTrack
  \/ RefreshStarts \/ EditReturns \/ SendReturns \/ SleepReturns
  \/ DisconnectReturns \/ DeleteReturns
  \/ StreamEnds \/ AfterPlay

SpecReset == Init /\ [][NextReset]_vars

(* A /reset of guild g has cleared the guild and returned, and no /play    *)
(* was issued since it cleared; /reset and /play are the only commands     *)
(* that change stopped[g] under SpecReset.                                 *)
ResetCompleted(g) ==
  /\ stopped[g] = "yes"
  /\ \A t \in tasks : ~(t.kind = "reset_cmd" /\ t.g = g)

(* C31: once a hard reset of a guild has completed, and until the next     *)
(* /play, NOW_PLAYING_MESSAGES has no entry for the guild, also when a     *)
(* call of send_or_edit_now_playing was suspended in msg.edit or           *)
(* channel.send when the reset cleared the entry.                          *)
C31_NoMessageAfterReset ==
  \A g \in Guilds : ResetCompleted(g) => NOW_PLAYING_MESSAGES[g] = 0

(* C32: restart_same_track starts a stream only for a track whose playback *)
(* an accepted effect change has interrupted and that no start or restart  *)
(* has answered yet, and the seek offset it applies is the elapsed time    *)
(* that change computed for that track; so a track whose stream ended on   *)
(* its own or by a skip is not started again.                              *)
C32_RestartOnlyAfterEffectChange ==
  event.op = "restart" =>
    /\ event.change # NoChange
    /\ event.skip = 0
    /\ event.change.title = CURRENT_TRACK[event.g].title
    /\ event.change.elapsed = CURRENT_TRACK[event.g].seek_offset
====
